---- MODULE Spec2Model ----
(***************************************************************************)
(* State-machine model of the e3d-viewer ModelViewer component             *)
(* (src/unnamed/part_007, the revision with the engineering control        *)
(* panel): the load orchestrator (loadModel), the model normaliser, the    *)
(* interaction-mode toggles, the manipulator drag, the render loop with    *)
(* resize and teardown, and the camera / view commands; and of the         *)
(* use3DModel composable (src/app/composables/use3DModel.ts): uploadModel  *)
(* and checkDuplicate.                                                     *)
(***************************************************************************)
EXTENDS Integers, Sequences, FiniteSets

(***************************************************************************)
(* Bounds of the model.                                                    *)
(***************************************************************************)
\* number of loadModel calls issued in one behaviour
MaxLoads == 2
\* largest itemsTotal the LoadingManager reports to onProgress
MaxItems == 2
\* largest camera coordinate reached by the projection toggle's pull-back
MaxCoord == 90
\* number of animation frames requested in one behaviour
MaxFrames == 3
\* number of uploadModel calls made in one behaviour
MaxUploads == 2

(***************************************************************************)
(* Program constants.                                                      *)
(***************************************************************************)
\* loadModel: const scale = 5 / maxDim
TARGET_SIZE == 5
\* toggleTopBottom / toggleFrontBack / toggleLeftRight: const distance = 10
distance == 10
\* init: new THREE.PerspectiveCamera(75, ...); toggleCameraMode: camera.fov = 75
FOV_PERSPECTIVE == 75
\* toggleCameraMode: camera.fov = 15
FOV_ORTHO == 15

(***************************************************************************)
(* JavaScript numbers.  A number is a pair <<n, d>>: the rational n/d in   *)
(* lowest terms when d > 0, and for d = 0 the IEEE specials +Infinity      *)
(* (n = 1), -Infinity (n = -1) and NaN (n = 0).                           *)
(***************************************************************************)
Abs(i) == IF i < 0 THEN -i ELSE i

Sgn(i) == IF i > 0 THEN 1 ELSE IF i < 0 THEN -1 ELSE 0

RECURSIVE GCD(_, _)
GCD(a, b) == IF b = 0 THEN a ELSE GCD(b, a % b)

Num(i) == <<i, 1>>

NaN == <<0, 0>>

IsFinite(x) == x[2] # 0

Norm(n, d) ==
    IF n = 0 THEN <<0, 1>>
    ELSE LET g == GCD(Abs(n), Abs(d))
         IN  <<(Sgn(d) * n) \div g, Abs(d) \div g>>

Neg(x) == <<-x[1], x[2]>>

Add(x, y) ==
    IF IsFinite(x) /\ IsFinite(y) THEN Norm(x[1] * y[2] + y[1] * x[2], x[2] * y[2])
    ELSE IF IsFinite(x) THEN y
    ELSE IF IsFinite(y) THEN x
    ELSE IF x = y THEN x ELSE NaN

Sub(x, y) == Add(x, Neg(y))

Mul(x, y) ==
    IF IsFinite(x) /\ IsFinite(y) THEN Norm(x[1] * y[1], x[2] * y[2])
    ELSE <<Sgn(x[1]) * Sgn(y[1]), 0>>

Div(x, y) ==
    IF IsFinite(y) /\ y[1] # 0 THEN Mul(x, Norm(y[2], y[1]))
    ELSE IF IsFinite(y) THEN <<Sgn(x[1]), 0>>
    ELSE IF IsFinite(x) THEN Num(0) ELSE NaN

Less(x, y) == IsFinite(x) /\ IsFinite(y) /\ x[1] * y[2] < y[1] * x[2]

\* Math.max of two numbers
MathMax2(x, y) ==
    IF x = NaN \/ y = NaN THEN NaN ELSE IF Less(x, y) THEN y ELSE x

MathMax(x, y, z) == MathMax2(MathMax2(x, y), z)

\* Math.round(n / d * 100) for integers n >= 0, d > 0
MathRoundPercent(n, d) == (2 * 100 * n + d) \div (2 * d)

(***************************************************************************)
(* Vectors (THREE.Vector3) are triples of numbers.                         *)
(***************************************************************************)
Vec(x, y, z) == <<Num(x), Num(y), Num(z)>>

VAdd(a, b) == <<Add(a[1], b[1]), Add(a[2], b[2]), Add(a[3], b[3])>>

VSub(a, b) == <<Sub(a[1], b[1]), Sub(a[2], b[2]), Sub(a[3], b[3])>>

VScale(a, s) == <<Mul(a[1], s), Mul(a[2], s), Mul(a[3], s)>>

(***************************************************************************)
(* What a loader hands back: a root node with its own position and the     *)
(* bounding box of its subtree in the root's local frame (the root carries *)
(* no rotation and unit scale).                                            *)
(***************************************************************************)
Geometries ==
    { \* the 2 cm cube of the STL scenario
      [position |-> Vec(0, 0, 0), min |-> Vec(0, 0, 0), max |-> Vec(2, 2, 2)],
      \* a box away from the origin, longest side 4
      [position |-> Vec(0, 0, 0), min |-> Vec(1, -1, 3), max |-> Vec(5, 1, 4)],
      \* a flat sheet: no height
      [position |-> Vec(0, 0, 0), min |-> Vec(-2, 0, 0), max |-> Vec(2, 0, 1)],
      \* a root node that is itself placed away from the origin
      [position |-> Vec(2, 1, 0), min |-> Vec(-1, -1, -1), max |-> Vec(1, 1, 1)],
      \* a single point: every extent is zero
      [position |-> Vec(0, 0, 0), min |-> Vec(1, 1, 1), max |-> Vec(1, 1, 1)] }

\* new THREE.Box3().setFromObject(node): the world-space box of the subtree
Box3SetFromObject(node) ==
    [min |-> VAdd(node.position, VScale(node.min, node.scale)),
     max |-> VAdd(node.position, VScale(node.max, node.scale))]

\* box.getCenter
GetCenter(box) == VScale(VAdd(box.min, box.max), <<1, 2>>)

\* box.getSize
GetSize(box) == VSub(box.max, box.min)

(***************************************************************************)
(* A model node: the request that created it, its transform and the local  *)
(* box of its subtree.  NullModel stands for null / undefined.             *)
(***************************************************************************)
NullModel ==
    [id |-> 0, position |-> Vec(0, 0, 0), scale |-> Num(1),
     min |-> Vec(0, 0, 0), max |-> Vec(0, 0, 0)]

NewNode(id, g) ==
    [id |-> id, position |-> g.position, scale |-> Num(1), min |-> g.min, max |-> g.max]

\* loadModel, "Center and scale model": the transform given to the loaded node
NormalizeModel(node) ==
    LET box    == Box3SetFromObject(node)
        center == GetCenter(box)
        size   == GetSize(box)
        maxDim == MathMax(size[1], size[2], size[3])
        scale  == Div(Num(TARGET_SIZE), maxDim)
        moved  == VSub(node.position, VScale(center, scale))
        lifted == Add(moved[2], Div(Mul(size[2], scale), Num(2)))
    IN  [node EXCEPT !.scale = scale, !.position = <<moved[1], lifted, moved[3]>>]

(***************************************************************************)
(* URLs and the format tag.  A URL is the sequence of the pieces that      *)
(* url.split('.') yields.                                                  *)
(***************************************************************************)
Urls ==
    { <<"part", "stl">>,
      <<"https://xyz", "supabase", "co/storage/models/PART", "STL">>,
      <<"assembly", "3mf">>,
      <<"scene", "glb">>,
      <<"scene", "Gltf">>,
      <<"part", "obj">>,
      <<"part", "stl", "bak">>,
      <<"model">> }

\* String.prototype.toLowerCase on the pieces that occur
ToLowerCase(s) ==
    CASE s = "STL"  -> "stl"
      [] s = "Gltf" -> "gltf"
      [] s = "co/storage/models/PART" -> "co/storage/models/part"
      [] OTHER      -> s

\* url.split('.').pop() without toLowerCase()
ExtensionCaseSensitive(url) == url[Len(url)]

\* url.split('.').pop()?.toLowerCase()
Extension(url) == ToLowerCase(url[Len(url)])

\* the loader the if / else-if chain of loadModel picks; "none" is the else branch
LoaderFor(extension) ==
    IF extension = "stl" THEN "STLLoader"
    ELSE IF extension = "3mf" THEN "ThreeMFLoader"
    ELSE IF extension = "glb" \/ extension = "gltf" THEN "GLTFLoader"
    ELSE "none"

\* error.message of a rejected loadAsync; the empty message takes the fallback
ErrorMessages == {"fetch failed", "parse failed", ""}

NoError == [text |-> <<>>, of |-> 0]

\* `Unsupported file format: ${extension}`
UnsupportedError(extension, id) ==
    [text |-> <<"Unsupported file format: ", extension>>, of |-> id]

\* error.message || 'Failed to load 3D model'
CaughtError(message, id) ==
    [text |-> IF message # "" THEN <<message>> ELSE <<"Failed to load 3D model">>,
     of |-> id]

VARIABLES
    \* ---- load orchestrator
    nextId,           \* number of loadModel calls made so far
    inflight,         \* the loadAsync promises not yet settled: [id, loader], with
                      \* the model that was on display when the request was issued
                      \* and whether no other request was in flight then, and
                      \* the counts its LoadingManager reported last
    sceneModels,      \* ids of the model nodes that are children of the scene
    currentModel,     \* let currentModel
    isLoading,        \* ref isLoading
    loadingProgress,  \* ref loadingProgress
    loadError,        \* ref loadError, tagged with the request that set it
    superseded,       \* requests that were in flight when a newer one was issued
    \* ---- transformControls
    tcObject,         \* transformControls.object: id of the node it is bound to, 0 = none
    tcVisible,        \* transformControls.visible
    tcMode,           \* transformControls.mode
    \* ---- interaction mode flags
    showMoveGizmo,
    showRotateGizmo,
    \* ---- camera and view state
    camera,           \* camera.position, camera.up, the point it looks at, camera.fov
    target,           \* controls.target
    currentView,      \* ref currentView
    isPerspective,    \* ref isPerspective
    streak,           \* the run of one view command repeated with no other camera input
    \* ---- manipulator drag
    dragging,         \* transformControls.dragging
    controlsEnabled,  \* controls.enabled
    \* ---- component lifecycle, render loop and host surface
    container,        \* container.value is the host element (null once unmounted)
    resizeListener,   \* onResize is registered as a window 'resize' listener
    disposed,         \* onUnmounted has run (renderer.dispose() was called)
    frames,           \* handles of the animation-frame callbacks not yet run
    lastHandle,       \* the handle requestAnimationFrame returned last
    animationId,      \* let animationId
    lateFrame,        \* animate has run after onUnmounted
    unhandled,        \* a promise returned by loadModel has rejected
    aspect,           \* camera.aspect
    rendererSize,     \* the size given to renderer.setSize
    \* ---- scene helpers
    showUCS,          \* ref showUCS
    showGround,       \* ref showGround
    sceneHelpers,     \* names of the helper objects that are children of the scene
    ucsVisible,       \* visible of the AxesHelper named 'ucs'
    groundVisible,    \* visible of the GridHelper named 'ground'
    \* ---- use3DModel: the signed-in user, the storage bucket and the table
    user,             \* user.value?.id || user.value?.sub, 0 when signed out
    storage,          \* paths of the objects in bucket 'e3d-models'
    db,               \* rows of table e3d_models
    uploads,          \* the uploadModel calls under way, each with its position
    uploadCalls,      \* number of uploadModel calls made so far
    outcome,          \* how the uploadModel call that ended last ended
    check,            \* the checkDuplicate call under way or made last: its
                      \* position, its file and quickMatches while it hashes, its
                      \* result, whether its query succeeded and whether a row
                      \* of the user in the folder had the file's hash then
    \* ---- the upload page (pages/index.vue)
    route,            \* the page the router shows
    selectedFile,     \* ref selectedFile
    selectedFolder,   \* ref selectedFolder
    showNewFolder,    \* ref showNewFolder
    newFolderName,    \* ref newFolderName, trimmed
    showDuplicateDialog,
    uploading,        \* ref uploading
    pageError,        \* ref error
    pagePc,           \* "checking" while the handleFileSelect called last
                      \* awaits checkDuplicate
    handler,          \* the file that call was given, and whether the
                      \* selection has been given to uploadModel
    earlier,          \* a handleFileSelect call awaiting its checkDuplicate
                      \* while a later call was made: its file, the result
                      \* it will be given
    awaited,          \* the uploadModel calls performUpload awaits: id, file
                      \* and folder given, whether Keep Both made the call,
                      \* the file whose check led to it, whether the
                      \* selection had been given to uploadModel before
    last,             \* the same of the call performUpload awaited last, with
                      \* what the call threw
    \* ---- deleteModel
    deletion          \* the deleteModel call under way or made last: its
                      \* position, who runs it, the record's id and storage
                      \* path, the user it read, what it threw

loadVars == <<nextId, inflight, sceneModels, currentModel, isLoading,
              loadingProgress, loadError, superseded>>

tcVars == <<tcObject, tcVisible, tcMode>>

modeVars == <<showMoveGizmo, showRotateGizmo>>

camVars == <<camera, target, currentView, isPerspective, streak>>

dragVars == <<dragging, controlsEnabled>>

\* the variables that the load, mode and camera handlers never write
lifeVars == <<container, resizeListener, disposed, frames, lastHandle, animationId,
              lateFrame, unhandled, aspect, rendererSize>>

helperVars == <<showUCS, showGround, sceneHelpers, ucsVisible, groundVisible>>

upVars == <<user, storage, db, uploads, uploadCalls, outcome, check>>

delVars == <<deletion>>

pageVars == <<route, selectedFile, selectedFolder, showNewFolder, newFolderName,
              showDuplicateDialog, uploading, pageError, pagePc, handler, earlier,
              awaited, last>>

\* the variables outside the viewer's loads, modes, camera, drags and frames
otherVars == <<upVars, helperVars, pageVars, delVars>>

restVars == <<dragVars, lifeVars, otherVars>>

\* what the uploads and the upload page leave alone: the variables of the
\* ModelViewer component and the deletion
viewerVars == <<loadVars, tcVars, modeVars, camVars, dragVars, lifeVars, helperVars,
                delVars>>

vars == <<loadVars, tcVars, modeVars, camVars, restVars>>

(***************************************************************************)
(* init(), as far as these variables go, and the refs' initial values.     *)
(***************************************************************************)
InitLoad ==
    /\ nextId = 0
    /\ inflight = {}
    /\ sceneModels = {}
    /\ currentModel = NullModel
    /\ isLoading = FALSE
    /\ loadingProgress = 0
    /\ loadError = NoError
    /\ superseded = {}

\* new TransformControls(...), which is invisible until something is attached;
\* setMode('translate'); scene.add(transformControls)
InitTransformControls ==
    /\ tcObject = 0
    /\ tcVisible = FALSE
    /\ tcMode = "translate"

InitModes ==
    /\ showMoveGizmo = TRUE
    /\ showRotateGizmo = FALSE

\* new OrbitControls(...) and new TransformControls(...): nothing is dragged
InitDrag ==
    /\ dragging = FALSE
    /\ controlsEnabled = TRUE

\* clientWidth and clientHeight of the host element when the viewer is mounted
InitialSize == <<800, 600>>

\* onMounted: init() has built the renderer for the host element and called
\* animate() once, and the resize listener is registered
InitLife ==
    /\ container = TRUE
    /\ resizeListener = TRUE
    /\ disposed = FALSE
    /\ frames = {1}
    /\ lastHandle = 1
    /\ animationId = 1
    /\ lateFrame = FALSE
    /\ unhandled = FALSE
    /\ aspect = Div(Num(InitialSize[1]), Num(InitialSize[2]))
    /\ rendererSize = InitialSize

\* init: the GridHelper named 'ground' and the AxesHelper named 'ucs' are
\* added to the scene, visible as every new Object3D is
InitHelpers ==
    /\ showUCS = TRUE
    /\ showGround = TRUE
    /\ sceneHelpers = {"ground", "ucs"}
    /\ ucsVisible = TRUE
    /\ groundVisible = TRUE

(***************************************************************************)
(* loadModel(url) up to its first await, or to its end when the format is  *)
(* unsupported (the else branch returns through finally without awaiting). *)
(***************************************************************************)
\* "Clear previous model": scene.remove(currentModel); transformControls.detach()
ClearPreviousModel ==
    IF currentModel.id # 0
    THEN /\ sceneModels' = sceneModels \ {currentModel.id}
         /\ tcObject' = 0
         /\ tcVisible' = FALSE
    ELSE /\ UNCHANGED <<sceneModels, tcObject, tcVisible>>

\* the id of the model node on display (0 when there is none)
Displayed == IF currentModel.id \in sceneModels THEN currentModel.id ELSE 0

\* loadModel with its unsupported-format branch returning past the finally block
LoadModelSkipsFinally(url) ==
    LET id     == nextId + 1
        loader == LoaderFor(Extension(url))
    IN  /\ nextId < MaxLoads
        /\ nextId' = id
        /\ superseded' = superseded \cup {r.id : r \in inflight}
        /\ ClearPreviousModel
        /\ currentModel' = NullModel
        /\ isLoading' = TRUE
        /\ loadingProgress' = 0
        /\ IF loader # "none"
           THEN /\ inflight' = inflight \cup
                               {[id |-> id, loader |-> loader, shown |-> Displayed,
                                 alone |-> inflight = {},
                                 itemsLoaded |-> 0, itemsTotal |-> 0]}
                /\ loadError' = NoError
           ELSE /\ inflight' = inflight
                /\ loadError' = UnsupportedError(Extension(url), id)
        /\ UNCHANGED <<tcMode, modeVars, camVars, restVars>>

\* loadModel without its "loadError.value = ''"
LoadModelKeepsError(url) ==
    LET id     == nextId + 1
        loader == LoaderFor(Extension(url))
    IN  /\ nextId < MaxLoads
        /\ nextId' = id
        /\ superseded' = superseded \cup {r.id : r \in inflight}
        /\ ClearPreviousModel
        /\ currentModel' = NullModel
        /\ IF loader # "none"
           THEN /\ inflight' = inflight \cup
                               {[id |-> id, loader |-> loader, shown |-> Displayed,
                                 alone |-> inflight = {},
                                 itemsLoaded |-> 0, itemsTotal |-> 0]}
                /\ isLoading' = TRUE
                /\ loadingProgress' = 0
                /\ loadError' = loadError
           ELSE /\ inflight' = inflight
                /\ loadError' = UnsupportedError(Extension(url), id)
                /\ isLoading' = FALSE
                /\ loadingProgress' = 100
        /\ UNCHANGED <<tcMode, modeVars, camVars, restVars>>

LoadModel(url) ==
    LET id     == nextId + 1
        loader == LoaderFor(Extension(url))
    IN  /\ nextId < MaxLoads
        /\ nextId' = id
        /\ superseded' = superseded \cup {r.id : r \in inflight}
        /\ ClearPreviousModel
        /\ currentModel' = NullModel
        /\ IF loader # "none"
           THEN /\ inflight' = inflight \cup
                               {[id |-> id, loader |-> loader, shown |-> Displayed,
                                 alone |-> inflight = {},
                                 itemsLoaded |-> 0, itemsTotal |-> 0]}
                /\ isLoading' = TRUE
                /\ loadingProgress' = 0
                /\ loadError' = NoError
           ELSE /\ inflight' = inflight
                /\ loadError' = UnsupportedError(Extension(url), id)
                /\ isLoading' = FALSE
                /\ loadingProgress' = 100
        /\ UNCHANGED <<tcMode, modeVars, camVars, restVars>>

\* loadingManager.onProgress = (url, loaded, total) => ...
\* called by the request's own LoadingManager when one more of its items has
\* ended, with the manager's counts: itemsLoaded goes up by one at each
\* call and itemsTotal never goes down
OnProgress(r, loaded, total) ==
    /\ r \in inflight
    /\ loaded = r.itemsLoaded + 1
    /\ total >= r.itemsTotal
    /\ inflight' = (inflight \ {r}) \cup
                       {[r EXCEPT !.itemsLoaded = loaded, !.itemsTotal = total]}
    /\ loadingProgress' = IF total > 0 THEN MathRoundPercent(loaded, total)
                          ELSE loadingProgress
    /\ UNCHANGED <<nextId, sceneModels, currentModel, isLoading,
                   loadError, superseded, tcVars, modeVars, camVars, restVars>>

\* scene.add(currentModel); transformControls.attach(currentModel)
AttachModel(node) ==
    /\ sceneModels' = sceneModels \cup {node.id}
    /\ tcObject' = node.id
    /\ tcVisible' = TRUE

\* loadModel with the two assignments of its finally block left out when
\* loadAsync resolves
LoadResolvedSkipsFinally(r, node) ==
    /\ r \in inflight
    /\ inflight' = inflight \ {r}
    /\ IF node.id # 0
       THEN /\ currentModel' = NormalizeModel(node)
            /\ AttachModel(node)
       ELSE /\ currentModel' = NullModel
            /\ UNCHANGED <<sceneModels, tcObject, tcVisible>>
    /\ UNCHANGED <<isLoading, loadingProgress>>
    /\ UNCHANGED <<nextId, loadError, superseded, tcMode, modeVars, camVars, restVars>>

\* the continuation of loadModel after loadAsync resolved with `node`
\* (NullModel when gltf.scene is undefined)
LoadResolved(r, node) ==
    /\ r \in inflight
    /\ inflight' = inflight \ {r}
    /\ IF node.id # 0
       THEN /\ currentModel' = NormalizeModel(node)
            /\ AttachModel(node)
       ELSE /\ currentModel' = NullModel
            /\ UNCHANGED <<sceneModels, tcObject, tcVisible>>
    /\ isLoading' = FALSE
    /\ loadingProgress' = 100
    /\ UNCHANGED <<nextId, loadError, superseded, tcMode, modeVars, camVars, restVars>>

\* loadModel with try / finally and no catch: the rejection leaves loadModel
LoadRejectedNoCatch(r, message) ==
    /\ r \in inflight
    /\ inflight' = inflight \ {r}
    /\ unhandled' = TRUE
    /\ isLoading' = FALSE
    /\ loadingProgress' = 100
    /\ UNCHANGED <<nextId, sceneModels, currentModel, loadError, superseded, tcVars,
                   modeVars, camVars, dragVars, otherVars>>
    /\ UNCHANGED <<container, resizeListener, disposed, frames, lastHandle,
                   animationId, lateFrame, aspect, rendererSize>>

\* the continuation of loadModel after loadAsync rejected: catch, then finally
LoadRejected(r, message) ==
    /\ r \in inflight
    /\ inflight' = inflight \ {r}
    /\ loadError' = CaughtError(message, r.id)
    /\ isLoading' = FALSE
    /\ loadingProgress' = 100
    /\ UNCHANGED <<nextId, sceneModels, currentModel, superseded, tcVars, modeVars,
                   camVars, restVars>>

\* what loadAsync of request r may resolve with
ResultsOf(r) ==
    {NewNode(r.id, g) : g \in Geometries}
        \cup (IF r.loader = "GLTFLoader" THEN {NullModel} ELSE {})

(***************************************************************************)
(* Interaction-mode toggles.                                               *)
(***************************************************************************)
\* toggleMove calling transformControls.detach() where the code only hides it
ToggleMoveDetaches ==
    /\ showMoveGizmo' = ~showMoveGizmo
    /\ showRotateGizmo' = FALSE
    /\ IF showMoveGizmo'
       THEN tcMode' = "translate" /\ tcVisible' = TRUE /\ tcObject' = tcObject
       ELSE tcMode' = tcMode /\ tcVisible' = FALSE /\ tcObject' = 0
    /\ UNCHANGED <<loadVars, camVars, restVars>>

ToggleMove ==
    /\ showMoveGizmo' = ~showMoveGizmo
    /\ showRotateGizmo' = FALSE
    /\ IF showMoveGizmo'
       THEN tcMode' = "translate" /\ tcVisible' = TRUE
       ELSE tcMode' = tcMode /\ tcVisible' = FALSE
    /\ UNCHANGED <<loadVars, tcObject, camVars, restVars>>

\* toggleRotate without its "if (showMoveGizmo.value) showMoveGizmo.value = false"
ToggleRotateKeepsMove ==
    /\ showRotateGizmo' = ~showRotateGizmo
    /\ showMoveGizmo' = showMoveGizmo
    /\ IF showRotateGizmo'
       THEN tcMode' = "rotate" /\ tcVisible' = TRUE
       ELSE tcMode' = tcMode /\ tcVisible' = FALSE
    /\ UNCHANGED <<loadVars, tcObject, camVars, restVars>>

ToggleRotate ==
    /\ showRotateGizmo' = ~showRotateGizmo
    /\ showMoveGizmo' = FALSE
    /\ IF showRotateGizmo'
       THEN tcMode' = "rotate" /\ tcVisible' = TRUE
       ELSE tcMode' = tcMode /\ tcVisible' = FALSE
    /\ UNCHANGED <<loadVars, tcObject, camVars, restVars>>

(***************************************************************************)
(* Helper toggles.                                                         *)
(***************************************************************************)
\* toggleUCS: scene.getObjectByName('ucs'); if (axes) axes.visible = showUCS.value
ToggleUCS ==
    /\ showUCS' = ~showUCS
    /\ ucsVisible' = IF "ucs" \in sceneHelpers THEN showUCS' ELSE ucsVisible
    /\ UNCHANGED <<showGround, sceneHelpers, groundVisible>>
    /\ UNCHANGED <<loadVars, tcVars, modeVars, camVars, dragVars, lifeVars, upVars, pageVars, delVars>>

\* toggleGround looking up the object named 'ucs'
ToggleGroundFindsUCS ==
    /\ showGround' = ~showGround
    /\ ucsVisible' = IF "ucs" \in sceneHelpers THEN showGround' ELSE ucsVisible
    /\ UNCHANGED <<showUCS, sceneHelpers, groundVisible>>
    /\ UNCHANGED <<loadVars, tcVars, modeVars, camVars, dragVars, lifeVars, upVars, pageVars, delVars>>

\* toggleGround: scene.getObjectByName('ground'); if (grid) grid.visible = ...
ToggleGround ==
    /\ showGround' = ~showGround
    /\ groundVisible' = IF "ground" \in sceneHelpers THEN showGround' ELSE groundVisible
    /\ UNCHANGED <<showUCS, sceneHelpers, ucsVisible>>
    /\ UNCHANGED <<loadVars, tcVars, modeVars, camVars, dragVars, lifeVars, upVars, pageVars, delVars>>

(***************************************************************************)
(* Dragging a manipulator handle.  TransformControls raises                *)
(* 'dragging-changed' whenever its dragging property changes value; its    *)
(* detach() (called by loadModel) clears object and axis and leaves        *)
(* dragging as it is, so a drag ends only with the pointer's release.      *)
(***************************************************************************)
\* a 'dragging-changed' listener that disables the orbit controls and never
\* enables them again
DraggingChangedOnlyDisables(value) == controlsEnabled' = (controlsEnabled /\ ~value)

\* (event) => { controls.enabled = !event.value }
DraggingChanged(value) == controlsEnabled' = ~value

\* pointer down on a handle of the bound node: dragging = true
PointerDown ==
    /\ tcObject # 0
    /\ ~dragging
    /\ dragging' = TRUE
    /\ DraggingChanged(TRUE)
    /\ UNCHANGED <<loadVars, tcVars, modeVars, camVars, lifeVars, otherVars>>

\* pointer up: dragging = false
PointerUp ==
    /\ dragging
    /\ dragging' = FALSE
    /\ DraggingChanged(FALSE)
    /\ UNCHANGED <<loadVars, tcVars, modeVars, camVars, lifeVars, otherVars>>

(***************************************************************************)
(* Render loop, viewport resize and teardown.                              *)
(***************************************************************************)
\* animate that leaves animationId at the handle of the first frame
AnimateKeepsFirstId(h) ==
    /\ h \in frames
    /\ lastHandle < MaxFrames
    /\ lastHandle' = lastHandle + 1
    /\ animationId' = animationId
    /\ frames' = (frames \ {h}) \cup {lastHandle'}
    /\ lateFrame' = (lateFrame \/ disposed)
    /\ UNCHANGED <<container, resizeListener, disposed, unhandled, aspect, rendererSize>>
    /\ UNCHANGED <<loadVars, tcVars, modeVars, camVars, dragVars, otherVars>>

\* the browser runs the frame callback with handle h:
\* animationId = requestAnimationFrame(animate); controls.update(); render
Animate(h) ==
    /\ h \in frames
    /\ lastHandle < MaxFrames
    /\ lastHandle' = lastHandle + 1
    /\ animationId' = lastHandle'
    /\ frames' = (frames \ {h}) \cup {lastHandle'}
    /\ lateFrame' = (lateFrame \/ disposed)
    /\ UNCHANGED <<container, resizeListener, disposed, unhandled, aspect, rendererSize>>
    /\ UNCHANGED <<loadVars, tcVars, modeVars, camVars, dragVars, otherVars>>

\* what the host element may measure when the window is resized
Sizes == {<<800, 600>>, <<400, 400>>, <<300, 0>>}

\* onResize that also re-centres the orbit target
OnResizeResetsTarget(size) ==
    IF ~container
    THEN UNCHANGED vars
    ELSE /\ aspect' = Div(Num(size[1]), Num(size[2]))
         /\ rendererSize' = size
         /\ target' = <<0, 0, 0>>
         /\ UNCHANGED <<container, resizeListener, disposed, frames, lastHandle,
                        animationId, lateFrame, unhandled>>
         /\ UNCHANGED <<loadVars, tcVars, modeVars, dragVars, otherVars>>
         /\ UNCHANGED <<camera, currentView, isPerspective, streak>>

\* onResize, with the host element measuring size = <<clientWidth, clientHeight>>
OnResize(size) ==
    IF ~container
    THEN UNCHANGED vars
    ELSE /\ aspect' = Div(Num(size[1]), Num(size[2]))
         /\ rendererSize' = size
         /\ UNCHANGED <<container, resizeListener, disposed, frames, lastHandle,
                        animationId, lateFrame, unhandled>>
         /\ UNCHANGED <<loadVars, tcVars, modeVars, camVars, dragVars, otherVars>>

\* onUnmounted; Vue has set the template ref container to null before it
OnUnmounted ==
    /\ ~disposed
    /\ container' = FALSE
    /\ resizeListener' = FALSE
    /\ frames' = frames \ {animationId}
    /\ disposed' = TRUE
    /\ UNCHANGED <<lastHandle, animationId, lateFrame, unhandled, aspect, rendererSize>>
    /\ UNCHANGED <<loadVars, tcVars, modeVars, camVars, dragVars, otherVars>>

(***************************************************************************)
(* Camera and view commands.  Camera vectors are integer triples.          *)
(***************************************************************************)
Origin == <<0, 0, 0>>

\* camera.position.set(5, 5, 5) in init and resetView
HomePosition == <<5, 5, 5>>

\* THREE.Object3D.DEFAULT_UP, the camera's up vector after construction
DefaultUp == <<0, 1, 0>>

\* where an orbit or zoom gesture may leave the camera
OrbitPositions == {<<3, 4, 12>>, <<-7, 2, 1>>}

\* where a pan gesture may leave the orbit target
PanTargets == {Origin, <<1, 0, 2>>}

\* the pose a streak of projection toggles started from (not kept for the
\* other commands)
NoStart == [position |-> Origin, target |-> Origin, fov |-> 0, isPerspective |-> TRUE]

NoStreak == [cmd |-> "none", n |-> 0, from |-> "iso", view |-> "iso",
             position |-> Origin, up |-> Origin, look |-> Origin, target |-> Origin,
             start |-> NoStart]

\* the streak after command cmd has set the primed camera variables
StreakAfter(cmd) ==
    IF streak.cmd = cmd
    THEN [streak EXCEPT !.n = IF streak.n < 4 THEN streak.n + 1 ELSE 4]
    ELSE [cmd |-> cmd, n |-> 1, from |-> currentView, view |-> currentView',
          position |-> camera'.position, up |-> camera'.up, look |-> camera'.look,
          target |-> target',
          start |-> IF cmd = "toggleCameraMode"
                    THEN [position |-> camera.position, target |-> target,
                          fov |-> camera.fov, isPerspective |-> isPerspective]
                    ELSE NoStart]

InitCamera ==
    /\ camera = [position |-> HomePosition, up |-> DefaultUp, look |-> Origin,
                 fov |-> FOV_PERSPECTIVE]
    /\ target = Origin
    /\ currentView = "iso"
    /\ isPerspective = TRUE
    /\ streak = NoStreak

\* resetView without its controls.reset(): the orbit target is left where it is
ResetViewKeepsTarget ==
    /\ camera' = [camera EXCEPT !.position = HomePosition, !.look = Origin]
    /\ UNCHANGED <<target, currentView, isPerspective, loadVars, tcVars, modeVars, restVars>>
    /\ streak' = StreakAfter("resetView")

\* controls.reset(); camera.position.set(5, 5, 5); camera.lookAt(0, 0, 0)
ResetView ==
    /\ target' = Origin
    /\ camera' = [camera EXCEPT !.position = HomePosition, !.look = Origin]
    /\ UNCHANGED <<currentView, isPerspective, loadVars, tcVars, modeVars, restVars>>
    /\ streak' = StreakAfter("resetView")

\* a view toggle: the first view of the pair unless it is the current one;
\* camera.lookAt(0, 0, 0) is followed by controls.update(), which turns the
\* camera to controls.target
SetView(cmd, view, position, up) ==
    /\ currentView' = view
    /\ camera' = [camera EXCEPT !.position = position, !.up = up, !.look = target]
    /\ UNCHANGED <<target, isPerspective, loadVars, tcVars, modeVars, restVars>>
    /\ streak' = StreakAfter(cmd)

\* toggleTopBottom testing for 'bottom' where the code tests for 'top'
ToggleTopBottomTestsBottom ==
    IF currentView = "bottom"
    THEN SetView("toggleTopBottom", "bottom", <<0, -distance, 0>>, <<0, 0, 1>>)
    ELSE SetView("toggleTopBottom", "top", <<0, distance, 0>>, <<0, 0, -1>>)

ToggleTopBottom ==
    IF currentView = "top"
    THEN SetView("toggleTopBottom", "bottom", <<0, -distance, 0>>, <<0, 0, 1>>)
    ELSE SetView("toggleTopBottom", "top", <<0, distance, 0>>, <<0, 0, -1>>)

ToggleFrontBack ==
    IF currentView = "front"
    THEN SetView("toggleFrontBack", "back", <<0, 0, -distance>>, <<0, 1, 0>>)
    ELSE SetView("toggleFrontBack", "front", <<0, 0, distance>>, <<0, 1, 0>>)

ToggleLeftRight ==
    IF currentView = "left"
    THEN SetView("toggleLeftRight", "right", <<distance, 0, 0>>, <<0, 1, 0>>)
    ELSE SetView("toggleLeftRight", "left", <<-distance, 0, 0>>, <<0, 1, 0>>)

MaxAbs(v) ==
    LET m == IF Abs(v[1]) > Abs(v[2]) THEN Abs(v[1]) ELSE Abs(v[2])
    IN  IF m > Abs(v[3]) THEN m ELSE Abs(v[3])

\* toggleCameraMode that also sets the view tag back to 'iso'
ToggleCameraModeResetsView ==
    /\ isPerspective' = ~isPerspective
    /\ IF ~isPerspective'
       THEN /\ 3 * MaxAbs(camera.position) <= MaxCoord
            /\ camera' = [camera EXCEPT
                              !.fov = FOV_ORTHO,
                              !.position = <<3 * @[1], 3 * @[2], 3 * @[3]>>,
                              !.look = target]
       ELSE /\ camera' = [camera EXCEPT !.fov = FOV_PERSPECTIVE, !.look = target]
    /\ currentView' = "iso"
    /\ UNCHANGED <<target, loadVars, tcVars, modeVars, restVars>>
    /\ streak' = StreakAfter("toggleCameraMode")

\* toggleCameraMode: the orthographic look is a narrow field of view with the
\* camera pulled back to three times its distance from the origin
ToggleCameraMode ==
    /\ isPerspective' = ~isPerspective
    /\ IF ~isPerspective'
       THEN /\ 3 * MaxAbs(camera.position) <= MaxCoord
            /\ camera' = [camera EXCEPT
                              !.fov = FOV_ORTHO,
                              !.position = <<3 * @[1], 3 * @[2], 3 * @[3]>>,
                              !.look = target]
       ELSE /\ camera' = [camera EXCEPT !.fov = FOV_PERSPECTIVE, !.look = target]
    /\ UNCHANGED <<target, currentView, loadVars, tcVars, modeVars, restVars>>
    /\ streak' = StreakAfter("toggleCameraMode")

\* an orbit or zoom gesture handled by OrbitControls (which ignores input
\* while controls.enabled is false): the camera moves about the target and
\* keeps looking at it; currentView has no listener on it
OrbitGesture(position) ==
    /\ controlsEnabled
    /\ camera.position # position
    /\ camera' = [camera EXCEPT !.position = position, !.look = target]
    /\ streak' = NoStreak
    /\ UNCHANGED <<target, currentView, isPerspective, loadVars, tcVars, modeVars, restVars>>

\* a pan gesture handled by OrbitControls: target and camera shift together
PanGesture(t) ==
    /\ controlsEnabled
    /\ t # target
    /\ target' = t
    /\ camera' = [camera EXCEPT
                      !.position = <<@[1] + t[1] - target[1], @[2] + t[2] - target[2],
                                     @[3] + t[3] - target[3]>>,
                      !.look = t]
    /\ streak' = NoStreak
    /\ UNCHANGED <<currentView, isPerspective, loadVars, tcVars, modeVars, restVars>>

Orbit == \E position \in OrbitPositions : OrbitGesture(position)

Pan == \E t \in PanTargets : PanGesture(t)

(***************************************************************************)
(* use3DModel (src/app/composables/use3DModel.ts): uploadModel and         *)
(* checkDuplicate against the storage bucket and the e3d_models table.     *)
(* Each await is a step of its own; a request to Supabase takes effect     *)
(* and returns its result in one step, and may fail for reasons of its     *)
(* own (ok = FALSE).                                                       *)
(***************************************************************************)
UserIds == {1}

Folders == {"", "brackets"}

\* the File objects a user may pick: a file, a renamed copy of it, and a file
\* of the same name and size with other content
Files ==
    { [name |-> <<"bracket", "stl">>, content |-> 1],
      [name |-> <<"bracket-v2", "stl">>, content |-> 1],
      [name |-> <<"bracket", "stl">>, content |-> 2] }

NoFile == [name |-> <<"none">>, content |-> 0]

\* file.size
FileSize(file) == IF file.content = 0 THEN 0 ELSE 684

\* calculateFileHash: SHA-256 of the content, taken to be free of collisions
CalculateFileHash(file) == <<"sha256", file.content>>

\* `users/${userId}/${folderPrefix}${modelId}.${fileExt}`
FilePath(userId, folderPath, modelId, fileExt) ==
    <<"users", userId, folderPath, modelId, fileExt>>

AuthError == "User must be authenticated to upload models"

\* the metadata object uploadModel builds for call c
Metadata(c) ==
    [id |-> c.id, user_id |-> c.userId, folder_path |-> c.folder,
     file_hash |-> CalculateFileHash(c.file), original_filename |-> c.file.name,
     file_size |-> FileSize(c.file), file_type |-> Extension(c.file.name),
     storage_path |-> c.path]

\* the table's primary key and its unique index idx_user_folder_file_dedup
\* on (user_id, folder_path, file_hash)
InsertConflict(row) ==
    \E m \in db :
        \/ m.id = row.id
        \/ /\ m.user_id = row.user_id
           /\ m.folder_path = row.folder_path
           /\ m.file_hash = row.file_hash

\* the outcome of a call: what it threw ("" when it returned) and the path it
\* had chosen (<<>> when it had not come to that)
NoOutcome == [id |-> 0, error |-> "", path |-> <<>>]

InitUpload ==
    /\ user = 0
    /\ storage = {}
    /\ db = {}
    /\ uploads = {}
    /\ uploadCalls = 0
    /\ outcome = NoOutcome
    /\ check = [pc |-> "idle", userId |-> 0, file |-> NoFile, folder |-> "",
                matches |-> {}, queried |-> FALSE, identical |-> FALSE,
                isDuplicate |-> FALSE]

\* useSupabaseUser(): the session begins or ends
SignIn(u) ==
    /\ user = 0
    /\ user' = u
    /\ UNCHANGED <<storage, db, uploads, uploadCalls, outcome, check, viewerVars, pageVars>>

SignOut ==
    /\ user # 0
    /\ user' = 0
    /\ UNCHANGED <<storage, db, uploads, uploadCalls, outcome, check, viewerVars, pageVars>>

\* uploadModel hashing the file before it looks at the user
UploadModelChecksLate(file, folderPath) ==
    LET modelId == uploadCalls + 1
        filePath == FilePath(user, folderPath, modelId, Extension(file.name))
    IN  /\ uploadCalls < MaxUploads
        /\ uploadCalls' = modelId
        /\ uploads' = uploads \cup
               {[id |-> modelId, userId |-> user, file |-> file,
                 folder |-> folderPath, path |-> filePath, pc |-> "hashing"]}
        /\ outcome' = outcome
        /\ UNCHANGED <<user, storage, db, check, viewerVars>>

\* uploadModel(file, {folderPath}) up to its first await; generateModelId is
\* taken to return an id not used before
UploadModel(file, folderPath) ==
    LET modelId == uploadCalls + 1
        filePath == FilePath(user, folderPath, modelId, Extension(file.name))
    IN  /\ uploadCalls < MaxUploads
        /\ uploadCalls' = modelId
        /\ IF user = 0
           THEN /\ uploads' = uploads
                /\ outcome' = [id |-> modelId, error |-> AuthError, path |-> <<>>]
           ELSE /\ uploads' = uploads \cup
                       {[id |-> modelId, userId |-> user, file |-> file,
                         folder |-> folderPath, path |-> filePath, pc |-> "hashing"]}
                /\ outcome' = outcome
        /\ UNCHANGED <<user, storage, db, check, viewerVars>>

\* call c goes on to its next await, at position pc
Moved(c, pc) ==
    /\ uploads' = (uploads \ {c}) \cup {[c EXCEPT !.pc = pc]}
    /\ UNCHANGED <<uploadCalls, outcome>>

\* call c ends: it throws error, or returns when error is ""
Ended(c, error) ==
    /\ uploads' = uploads \ {c}
    /\ outcome' = [id |-> c.id, error |-> error, path |-> c.path]
    /\ UNCHANGED uploadCalls

\* await calculateFileHash(file) returns; the metadata object is built and the
\* storage upload is requested
UploadHashed(c) ==
    /\ c \in uploads
    /\ c.pc = "hashing"
    /\ Moved(c, "uploading")
    /\ UNCHANGED <<user, storage, db, check, viewerVars, pageVars>>

\* storage.upload(filePath, file, {upsert: false}) returns; on success the
\* metadata insert is requested
UploadStored(c, ok) ==
    /\ c \in uploads
    /\ c.pc = "uploading"
    /\ IF ok /\ c.path \notin storage
       THEN storage' = storage \cup {c.path} /\ Moved(c, "inserting")
       ELSE storage' = storage /\ Ended(c, "uploadError")
    /\ UNCHANGED <<user, db, check, viewerVars, pageVars>>

\* insert(metadata) returns; on failure storage.remove([filePath]) is requested
UploadInserted(c, ok) ==
    /\ c \in uploads
    /\ c.pc = "inserting"
    /\ IF ok /\ ~InsertConflict(Metadata(c))
       THEN db' = db \cup {Metadata(c)} /\ Ended(c, "")
       ELSE db' = db /\ Moved(c, "removing")
    /\ UNCHANGED <<user, storage, check, viewerVars, pageVars>>

\* storage.remove([filePath]) returns, its result is not looked at, and
\* metadataError is thrown
UploadRemoved(c, ok) ==
    /\ c \in uploads
    /\ c.pc = "removing"
    /\ storage' = IF ok THEN storage \ {c.path} ELSE storage
    /\ Ended(c, "metadataError")
    /\ UNCHANGED <<user, db, check, viewerVars, pageVars>>

\* checkDuplicate(file, folderPath) up to the result of its quick query
CheckDuplicate(file, folderPath, ok) ==
    LET quickMatches == {m \in db : /\ m.user_id = user
                                    /\ m.folder_path = folderPath
                                    /\ m.original_filename = file.name
                                    /\ m.file_size = FileSize(file)}
        identical == \E m \in db : /\ m.user_id = user
                                   /\ m.folder_path = folderPath
                                   /\ m.file_hash = CalculateFileHash(file)
        call == [pc |-> "done", userId |-> user, file |-> NoFile, folder |-> "",
                 matches |-> {}, queried |-> FALSE, identical |-> FALSE,
                 isDuplicate |-> FALSE]
    IN  /\ check.pc # "hashing"
        /\ check' = IF user = 0 THEN call
                    ELSE IF ~ok THEN call
                    ELSE IF quickMatches = {}
                         THEN [call EXCEPT !.queried = TRUE, !.identical = identical]
                    ELSE [call EXCEPT !.pc = "hashing", !.file = file,
                                      !.folder = folderPath, !.matches = quickMatches,
                                      !.queried = TRUE, !.identical = identical]
        /\ UNCHANGED <<user, storage, db, uploads, uploadCalls, outcome, viewerVars>>

\* await calculateFileHash(file) returns; quickMatches.find(...)
CheckHashed ==
    /\ check.pc = "hashing"
    /\ check' = [check EXCEPT
                     !.pc = "done",
                     !.file = NoFile,
                     !.folder = "",
                     !.matches = {},
                     !.isDuplicate = \E m \in check.matches :
                                         m.file_hash = CalculateFileHash(check.file)]
    /\ UNCHANGED <<user, storage, db, uploads, uploadCalls, outcome, viewerVars, pageVars>>

(***************************************************************************)
(* deleteModel, of the composable and of the model list page: the storage  *)
(* object is removed first, the metadata record after it.  One call runs   *)
(* at a time.                                                              *)
(***************************************************************************)
Deleters == {"use3DModel", "page"}

NoDeletion == [pc |-> "idle", by |-> "use3DModel", id |-> 0, path |-> <<>>,
               userId |-> 0, error |-> ""]

InitDelete == deletion = NoDeletion

\* deleteModel up to its first await; the page's version throws when no user
\* is signed in
DeleteModel(by, m) ==
    /\ deletion.pc \notin {"removing", "deleting"}
    /\ m \in db
    /\ deletion' = IF by = "page" /\ user = 0
                   THEN [pc |-> "done", by |-> by, id |-> m.id, path |-> m.storage_path,
                         userId |-> user, error |-> "User not authenticated"]
                   ELSE [pc |-> "removing", by |-> by, id |-> m.id,
                         path |-> m.storage_path, userId |-> user, error |-> ""]
    /\ UNCHANGED <<upVars, pageVars>>
    /\ UNCHANGED <<loadVars, tcVars, modeVars, camVars, dragVars, lifeVars, helperVars>>

\* storage.remove([storagePath]) returns: if (storageError) throw storageError,
\* else the delete of the record is requested
DeleteStorageRemoved(ok) ==
    /\ deletion.pc = "removing"
    /\ IF ok
       THEN /\ storage' = storage \ {deletion.path}
            /\ deletion' = [deletion EXCEPT !.pc = "deleting"]
       ELSE /\ storage' = storage
            /\ deletion' = [deletion EXCEPT !.pc = "done", !.error = "storageError"]
    /\ UNCHANGED <<user, db, uploads, uploadCalls, outcome, check, pageVars>>
    /\ UNCHANGED <<loadVars, tcVars, modeVars, camVars, dragVars, lifeVars, helperVars>>

\* the rows that the delete request of the call names: .eq('id', modelId),
\* and .eq('user_id', userId) on the page
DeletedRows ==
    {m \in db : /\ m.id = deletion.id
                /\ deletion.by = "page" => m.user_id = deletion.userId}

\* from('e3d_models').delete() returns: the page throws dbError, the
\* composable does not look at the result
DeleteRowDeleted(ok) ==
    /\ deletion.pc = "deleting"
    /\ db' = IF ok THEN db \ DeletedRows ELSE db
    /\ deletion' = [deletion EXCEPT
                        !.pc = "done",
                        !.error = IF ~ok /\ deletion.by = "page" THEN "dbError" ELSE ""]
    /\ UNCHANGED <<user, storage, uploads, uploadCalls, outcome, check, pageVars>>
    /\ UNCHANGED <<loadVars, tcVars, modeVars, camVars, dragVars, lifeVars, helperVars>>

(***************************************************************************)
(* The upload page, pages/index.vue.  A handler of the page runs to its    *)
(* next await in one step.  uploadProgress, folders and duplicateInfo are  *)
(* shown and never read by a handler, and are left out.  The duplicate     *)
(* dialog covers the page, and the file input is disabled while uploading  *)
(* is true, not while a duplicate check is awaited: a second file may be   *)
(* picked then, and at most two handleFileSelect calls are under way.      *)
(***************************************************************************)
NoLast == [id |-> 0, keep |-> FALSE, userId |-> 0, file |-> NoFile, folder |-> "",
           error |-> ""]

NoEarlier == [pc |-> "none", file |-> NoFile, isDuplicate |-> FALSE]

NoHandler == [file |-> NoFile, uploaded |-> FALSE]

\* the refs of the page at setup; the handlers of the page that was left
\* have no part in the new one
FreshPage ==
    /\ selectedFile' = NoFile
    /\ selectedFolder' = ""
    /\ showNewFolder' = FALSE
    /\ newFolderName' = ""
    /\ showDuplicateDialog' = FALSE
    /\ uploading' = FALSE
    /\ pageError' = ""
    /\ pagePc' = "idle"
    /\ handler' = NoHandler
    /\ earlier' = NoEarlier
    /\ awaited' = {}

InitPage ==
    /\ route = "index"
    /\ selectedFile = NoFile
    /\ selectedFolder = ""
    /\ showNewFolder = FALSE
    /\ newFolderName = ""
    /\ showDuplicateDialog = FALSE
    /\ uploading = FALSE
    /\ pageError = ""
    /\ pagePc = "idle"
    /\ handler = NoHandler
    /\ earlier = NoEarlier
    /\ awaited = {}
    /\ last = NoLast

\* the page is free for the user's input
PageIdle == route = "index" /\ pagePc = "idle" /\ ~uploading /\ ~showDuplicateDialog

\* the folders the select offers: the root and getUserFolders()
UserFolders == {""} \cup {m.folder_path : m \in {n \in db : n.user_id = user}}

\* v-model="selectedFolder", shown to a signed-in user when no new folder is
\* being named
SelectFolder(folder) ==
    /\ PageIdle
    /\ user # 0
    /\ ~showNewFolder
    /\ folder # selectedFolder
    /\ selectedFolder' = folder
    /\ UNCHANGED <<route, selectedFile, showNewFolder, newFolderName, showDuplicateDialog,
                   uploading, pageError, pagePc, handler, earlier, awaited, last>>
    /\ UNCHANGED <<upVars, viewerVars>>

\* v-model="newFolderName"
TypeNewFolderName(name) ==
    /\ PageIdle
    /\ user # 0
    /\ showNewFolder
    /\ name # newFolderName
    /\ newFolderName' = name
    /\ UNCHANGED <<route, selectedFile, selectedFolder, showNewFolder, showDuplicateDialog,
                   uploading, pageError, pagePc, handler, earlier, awaited, last>>
    /\ UNCHANGED <<upVars, viewerVars>>

\* toggleNewFolder
ToggleNewFolder ==
    /\ PageIdle
    /\ user # 0
    /\ showNewFolder' = ~showNewFolder
    /\ selectedFolder' = IF showNewFolder' THEN "" ELSE selectedFolder
    /\ UNCHANGED <<route, selectedFile, newFolderName, showDuplicateDialog,
                   uploading, pageError, pagePc, handler, earlier, awaited, last>>
    /\ UNCHANGED <<upVars, viewerVars>>

\* performUpload up to await uploadModel(...); keep records that it was
\* called by handleDuplicateAction('keep'), checked the file whose duplicate
\* check led to the call
PerformUpload(keep, checked) ==
    IF selectedFile = NoFile
    THEN UNCHANGED <<uploading, pageError, handler, awaited, upVars, viewerVars>>
    ELSE LET folderPath == IF showNewFolder /\ newFolderName # ""
                           THEN newFolderName ELSE selectedFolder
         IN  /\ uploading' = TRUE
             /\ pageError' = ""
             /\ handler' = [handler EXCEPT !.uploaded = TRUE]
             /\ awaited' = awaited \cup
                    {[id |-> uploadCalls + 1, keep |-> keep, userId |-> user,
                      file |-> selectedFile, folder |-> folderPath,
                      checked |-> checked, again |-> handler.uploaded]}
             /\ UploadModel(selectedFile, folderPath)

\* performUpload from the return or throw of the uploadModel call a:
\* router.push on success, the catch block, the finally block
PerformUploadEnded(a) ==
    /\ a \in awaited
    /\ outcome.id = a.id
    /\ route' = IF outcome.error = "" THEN "viewer" ELSE route
    /\ pageError' = IF outcome.error = "" THEN pageError ELSE outcome.error
    /\ uploading' = FALSE
    /\ selectedFile' = NoFile
    /\ awaited' = awaited \ {a}
    /\ last' = [id |-> a.id, keep |-> a.keep, userId |-> a.userId,
                file |-> a.file, folder |-> a.folder, error |-> outcome.error]
    /\ UNCHANGED <<selectedFolder, showNewFolder, newFolderName, showDuplicateDialog,
                   pagePc, handler, earlier>>
    /\ UNCHANGED <<upVars, viewerVars>>

\* handleFileSelect up to await checkDuplicate(file, selectedFolder.value);
\* a call that is still waiting for its check goes on as the earlier one
HandleFileSelect(file, ok) ==
    /\ route = "index"
    /\ ~uploading
    /\ ~showDuplicateDialog
    /\ \/ pagePc = "idle"
       \/ pagePc = "checking" /\ check.pc = "done" /\ earlier.pc = "none"
    /\ IF user = 0
       THEN /\ pageError' = "Please sign in to upload models"
            /\ route' = "login"
            /\ UNCHANGED <<selectedFile, pagePc, handler, earlier, upVars, viewerVars>>
       ELSE /\ selectedFile' = file
            /\ pageError' = ""
            /\ pagePc' = "checking"
            /\ handler' = [file |-> file, uploaded |-> FALSE]
            /\ earlier' = IF pagePc = "checking"
                          THEN [pc |-> "checking", file |-> handler.file,
                                isDuplicate |-> check.isDuplicate]
                          ELSE earlier
            /\ route' = route
            /\ CheckDuplicate(file, selectedFolder, ok)
    /\ UNCHANGED <<selectedFolder, showNewFolder, newFolderName, showDuplicateDialog,
                   uploading, awaited, last>>

\* handleFileSelect from the return of checkDuplicate
CheckReturned ==
    /\ pagePc = "checking"
    /\ check.pc = "done"
    /\ pagePc' = "idle"
    /\ IF check.isDuplicate
       THEN /\ showDuplicateDialog' = TRUE
            /\ UNCHANGED <<uploading, pageError, handler, awaited, upVars, viewerVars>>
       ELSE /\ showDuplicateDialog' = showDuplicateDialog
            /\ PerformUpload(FALSE, handler.file)
    /\ UNCHANGED <<route, selectedFile, selectedFolder, showNewFolder, newFolderName,
                   earlier, last>>

\* the earlier handleFileSelect from the return of its checkDuplicate
EarlierCheckReturned ==
    /\ earlier.pc = "checking"
    /\ earlier' = NoEarlier
    /\ IF earlier.isDuplicate
       THEN /\ showDuplicateDialog' = TRUE
            /\ UNCHANGED <<uploading, pageError, handler, awaited, upVars, viewerVars>>
       ELSE /\ showDuplicateDialog' = showDuplicateDialog
            /\ PerformUpload(FALSE, earlier.file)
    /\ UNCHANGED <<route, selectedFile, selectedFolder, showNewFolder, newFolderName,
                   pagePc, last>>

DuplicateActions == {"replace", "keep", "cancel"}

\* handleDuplicateAction(action), a click on a button of the dialog
HandleDuplicateAction(action) ==
    /\ route = "index"
    /\ showDuplicateDialog
    /\ showDuplicateDialog' = FALSE
    /\ IF action = "cancel"
       THEN /\ selectedFile' = NoFile
            /\ UNCHANGED <<uploading, pageError, handler, awaited, upVars, viewerVars>>
       ELSE IF action = "replace"
       THEN /\ pageError' = "Replace functionality coming soon. Please delete the old file first."
            /\ UNCHANGED <<selectedFile, uploading, handler, awaited, upVars, viewerVars>>
       ELSE /\ selectedFile' = selectedFile
            /\ PerformUpload(TRUE, handler.file)
    /\ UNCHANGED <<route, selectedFolder, showNewFolder, newFolderName, pagePc,
                   earlier, last>>

\* the user comes back to the upload page, which is set up anew
Return ==
    /\ route # "index"
    /\ route' = "index"
    /\ FreshPage
    /\ UNCHANGED <<last, upVars, viewerVars>>

\* onMounted and the watch on props.modelUrl, which Vue stops at unmount
Load == container /\ \E url \in Urls : LoadModel(url)

Frame == \E h \in frames : Animate(h)

\* a window 'resize' event
Resize == resizeListener /\ \E size \in Sizes : OnResize(size)

Progress ==
    \E r \in inflight : \E total \in 1..MaxItems : \E loaded \in 1..total :
        OnProgress(r, loaded, total)

Resolve == \E r \in inflight : \E node \in ResultsOf(r) : LoadResolved(r, node)

Reject == \E r \in inflight : \E message \in ErrorMessages : LoadRejected(r, message)

Init == InitLoad /\ InitTransformControls /\ InitModes /\ InitCamera /\ InitDrag /\ InitLife /\ InitUpload /\ InitHelpers /\ InitPage /\ InitDelete

\* the load orchestrator together with the interaction-mode toggles
Next == Load \/ Resolve \/ Reject \/ ToggleMove \/ ToggleRotate

Spec == Init /\ [][Next]_vars

\* the camera and view-state machine
NextView ==
    \/ ResetView
    \/ ToggleTopBottom
    \/ ToggleFrontBack
    \/ ToggleLeftRight
    \/ ToggleCameraMode
    \/ Orbit
    \/ Pan
    \/ Resize

SpecView == Init /\ [][NextView]_vars

\* loads and mode toggles while a manipulator handle is dragged and released
NextDrag ==
    \/ Load
    \/ Resolve
    \/ Reject
    \/ ToggleMove
    \/ ToggleRotate
    \/ PointerDown
    \/ PointerUp

SpecDrag == Init /\ [][NextDrag]_vars

\* the render loop and the loads from mount to teardown and after it
NextLife ==
    \/ Load
    \/ Resolve
    \/ Reject
    \/ Frame
    \/ OnUnmounted

SpecLife == Init /\ [][NextLife]_vars

\* the loader of request id resolves or rejects
Settle(id) ==
    \E r \in inflight :
        /\ r.id = id
        /\ \/ \E message \in ErrorMessages : LoadRejected(r, message)
           \/ \E node \in ResultsOf(r) : LoadResolved(r, node)

\* the loads alone, with every loader settling in the end
NextLoads == Load \/ Resolve \/ Reject

SpecSettle ==
    Init /\ [][NextLoads]_vars /\ \A id \in 1..MaxLoads : WF_vars(Settle(id))

\* the loads together with the helper toggles
NextHelpers == Load \/ Resolve \/ Reject \/ ToggleUCS \/ ToggleGround

SpecHelpers == Init /\ [][NextHelpers]_vars

\* the loads together with the progress reports of their LoadingManagers
NextProgress == Load \/ Progress \/ Resolve \/ Reject

SpecProgress == Init /\ [][NextProgress]_vars

\* uploadModel called with a file and a folder of the caller's choice
Upload ==
    /\ \E file \in Files : \E folderPath \in Folders : UploadModel(file, folderPath)
    /\ UNCHANGED pageVars

UploadHash == \E c \in uploads : UploadHashed(c)

UploadStore == \E c \in uploads : \E ok \in BOOLEAN : UploadStored(c, ok)

UploadInsert == \E c \in uploads : \E ok \in BOOLEAN : UploadInserted(c, ok)

UploadRemove == \E c \in uploads : \E ok \in BOOLEAN : UploadRemoved(c, ok)

Check ==
    /\ \E file \in Files : \E folderPath \in Folders : \E ok \in BOOLEAN :
           CheckDuplicate(file, folderPath, ok)
    /\ UNCHANGED pageVars

\* uploads of a user who signs in and out
NextUpload ==
    \/ \E u \in UserIds : SignIn(u)
    \/ SignOut
    \/ Upload
    \/ UploadHash
    \/ UploadStore
    \/ UploadInsert
    \/ UploadRemove

SpecUpload == Init /\ [][NextUpload]_vars

\* duplicate checks against the rows that uploads have inserted
NextDedup ==
    \/ \E u \in UserIds : SignIn(u)
    \/ Upload
    \/ UploadHash
    \/ UploadStore
    \/ UploadInsert
    \/ UploadRemove
    \/ Check
    \/ CheckHashed

SpecDedup == Init /\ [][NextDedup]_vars

SignedIn == \E u \in UserIds : SignIn(u)

Delete == \E by \in Deleters : \E m \in db : DeleteModel(by, m)

DeleteStorage == \E ok \in BOOLEAN : DeleteStorageRemoved(ok)

DeleteRow == \E ok \in BOOLEAN : DeleteRowDeleted(ok)

\* uploads and deletions of a user who signs in and out
NextDelete ==
    \/ SignedIn
    \/ SignOut
    \/ Upload
    \/ UploadHash
    \/ UploadStore
    \/ UploadInsert
    \/ UploadRemove
    \/ Delete
    \/ DeleteStorage
    \/ DeleteRow

SpecDelete == Init /\ [][NextDelete]_vars

PickFolder == \E folder \in UserFolders : SelectFolder(folder)

NameFolder == \E name \in Folders : TypeNewFolderName(name)

UploadEnded == \E a \in awaited : PerformUploadEnded(a)

FileSelect == \E file \in Files : \E ok \in BOOLEAN : HandleFileSelect(file, ok)

DuplicateAction == \E action \in DuplicateActions : HandleDuplicateAction(action)

\* the upload page of a user who signs in
NextPage ==
    \/ SignedIn
    \/ PickFolder
    \/ NameFolder
    \/ ToggleNewFolder
    \/ FileSelect
    \/ CheckHashed
    \/ CheckReturned
    \/ DuplicateAction
    \/ UploadHash
    \/ UploadStore
    \/ UploadInsert
    \/ UploadRemove
    \/ EarlierCheckReturned
    \/ UploadEnded
    \/ Return

SpecPage == Init /\ [][NextPage]_vars

(***************************************************************************)
(* Properties.                                                             *)
(***************************************************************************)
InflightIds == {r.id : r \in inflight}

SupportedFormats == {"stl", "3mf", "glb", "gltf"}

\* C1: in every reachable state the scene holds at most one model node.
AtMostOneModelInScene == Cardinality(sceneModels) <= 1

\* C2: supersession: once a request that was superseded while in flight and
\* the request issued right after it have both settled, the superseded
\* request's model is not in the scene.
SupersededModelNeverShown ==
    \A a \in superseded :
        (a \notin InflightIds /\ (a + 1) \notin InflightIds) => a \notin sceneModels

\* C3: the error message on display was never set by a superseded request.
SupersededErrorNeverSurfaces == loadError.of \notin superseded

\* C4: failure isolation: a load that ends in error (here: an unsupported
\* format, or a rejected fetch or parse of the newest request) leaves the
\* model that was on display when it was issued in the scene, with the
\* manipulator still bound to it.
FailureIsolation ==
    [][ /\ \A url \in Urls :
              (Extension(url) \notin SupportedFormats /\ LoadModel(url) /\ Displayed # 0)
                  => (Displayed \in sceneModels' /\ tcObject' = Displayed)
        /\ \A r \in inflight : \A message \in ErrorMessages :
              (LoadRejected(r, message) /\ r.id = nextId /\ r.shown # 0)
                  => (r.shown \in sceneModels' /\ tcObject' = r.shown) ]_vars

\* C5: a load whose format tag is outside {stl, 3mf, glb, gltf} starts no
\* fetch, sets a non-empty unsupported-format message, forces progress to 100
\* and attaches no model.
UnsupportedFormatOutcome ==
    [][ \A url \in Urls :
            (Extension(url) \notin SupportedFormats /\ LoadModel(url))
                => /\ inflight' = inflight
                   /\ Len(loadError'.text) > 0
                   /\ loadError'.text[1] = "Unsupported file format: "
                   /\ loadError'.of = nextId'
                   /\ loadingProgress' = 100
                   /\ sceneModels' \subseteq sceneModels
                   /\ tcObject' \in {0, tcObject} ]_vars

\* C5 witness: the newest request ended as unsupported while an older fetch
\* is still in flight.
UnsupportedFormatSeen ==
    /\ Len(loadError.text) > 0
    /\ loadError.text[1] = "Unsupported file format: "
    /\ loadError.of = nextId
    /\ loadingProgress = 100
    /\ inflight # {}

\* C6: a loaded node whose bounding box has maximum extent zero ends the load
\* in error with a message, and is neither added to the scene nor bound to
\* the manipulator.
DegenerateGeometryRejected ==
    [][ \A r \in inflight : \A node \in ResultsOf(r) :
            (/\ LoadResolved(r, node)
             /\ node.id # 0
             /\ LET size == GetSize(Box3SetFromObject(node))
                IN  MathMax(size[1], size[2], size[3]) = Num(0))
                => /\ Len(loadError'.text) > 0
                   /\ node.id \notin sceneModels'
                   /\ tcObject' # node.id ]_vars

RoundTrip(cmd, first, second) ==
    (streak.cmd = cmd /\ streak.from # first)
        => /\ streak.view = first
           /\ streak.n = 1 => currentView = first
           /\ streak.n = 2 => currentView = second
           /\ streak.n = 3 => /\ currentView = first
                              /\ camera.position = streak.position
                              /\ camera.up = streak.up

\* C8: view round trip: from a state that is not the first view of its pair a
\* view toggle yields the first view, then the second, then the first again
\* with the camera position and up vector of the first time.
ViewRoundTrip ==
    /\ RoundTrip("toggleTopBottom", "top", "bottom")
    /\ RoundTrip("toggleFrontBack", "front", "back")
    /\ RoundTrip("toggleLeftRight", "left", "right")

\* C8 witness: the third top/bottom toggle in a row, started from bottom.
ThirdTopBottomToggle ==
    /\ streak.cmd = "toggleTopBottom"
    /\ streak.n = 3
    /\ streak.from = "bottom"
    /\ target # Origin

\* C9: resetView puts the camera at (5,5,5) with the orbit target at the
\* origin, and a second resetView in a row leaves the same pose as the first.
ResetViewIdempotent ==
    streak.cmd = "resetView"
        => /\ camera.position = HomePosition
           /\ target = Origin
           /\ camera.look = Origin
           /\ streak.n >= 2 => /\ camera.position = streak.position
                               /\ camera.up = streak.up
                               /\ camera.look = streak.look
                               /\ target = streak.target

\* C9 witness: a second resetView in a row, begun from the top view in the
\* orthographic look.
SecondResetView ==
    /\ streak.cmd = "resetView"
    /\ streak.n = 2
    /\ streak.from = "top"
    /\ camera.up = <<0, 0, -1>>
    /\ ~isPerspective

\* C10: move and rotate are never both active, the manipulator is in the mode
\* of the active flag, and activating one while the other is active leaves
\* the other inactive.
ModeMutualExclusion ==
    /\ [](/\ ~(showMoveGizmo /\ showRotateGizmo)
          /\ showMoveGizmo => tcMode = "translate"
          /\ showRotateGizmo => tcMode = "rotate")
    /\ [][ /\ (ToggleRotate /\ showMoveGizmo) => (showRotateGizmo' /\ ~showMoveGizmo')
           /\ (ToggleMove /\ showRotateGizmo) => (showMoveGizmo' /\ ~showRotateGizmo')
         ]_vars

\* C10 witness: rotate is active on a bound model, move is not.
RotateActiveOnModel ==
    /\ showRotateGizmo
    /\ ~showMoveGizmo
    /\ tcMode = "rotate"
    /\ tcVisible
    /\ tcObject # 0

\* C11: a mode toggle never touches the scene, the current model or the
\* manipulator's binding; a toggle that leaves neither flag active hides the
\* manipulator, and a toggle that activates move or rotate shows it, on the
\* node it was bound to all along, without any load being issued.
HideKeepsModelAttached ==
    [][ (ToggleMove \/ ToggleRotate)
            => /\ UNCHANGED <<sceneModels, currentModel, tcObject, nextId, inflight>>
               /\ (~showMoveGizmo' /\ ~showRotateGizmo') => ~tcVisible'
               /\ showMoveGizmo' => (tcVisible' /\ tcMode' = "translate")
               /\ showRotateGizmo' => (tcVisible' /\ tcMode' = "rotate") ]_vars

\* C11 witness: mode none with the manipulator hidden and still bound to the
\* current model, which is in the scene.
NoneModeModelBound ==
    /\ ~showMoveGizmo
    /\ ~showRotateGizmo
    /\ ~tcVisible
    /\ tcObject # 0
    /\ tcObject \in sceneModels
    /\ currentModel.id = tcObject

\* C12: in every reachable state the orbit controls are enabled exactly when
\* no manipulator drag is under way, whatever loads started or completed
\* since the drag began.
ControlsDisabledWhileDragging == controlsEnabled = ~dragging

\* C12 witness: a drag is under way and the orbit controls are disabled while
\* a load, started after the drag began, has detached the manipulator and is
\* still in flight.
LoadStartedDuringDrag ==
    /\ dragging
    /\ ~controlsEnabled
    /\ tcObject = 0
    /\ inflight # {}

\* C13: once onUnmounted has run no frame callback is pending and animate has
\* not run since; until then exactly one frame callback is pending, the one
\* whose handle animationId holds, so the render loop goes on.
NoFrameAfterTeardown ==
    /\ disposed => (frames = {} /\ ~lateFrame)
    /\ ~disposed => frames = {animationId}

\* C13 witness: teardown after the loop has rendered further frames, with a
\* load still in flight.
TornDownAfterFrames ==
    /\ disposed
    /\ animationId > 1
    /\ inflight # {}

\* C14: a resize writes the camera aspect ratio and the renderer size and
\* nothing else; camera pose, orbit target, view tag, projection mode,
\* interaction mode and the attached model are as before, and with no host
\* element the whole state is as before.
ResizeFrameCondition ==
    [][ \A size \in Sizes :
            OnResize(size)
                => /\ UNCHANGED <<camera, target, currentView, isPerspective, streak>>
                   /\ UNCHANGED <<modeVars, tcVars, sceneModels, currentModel>>
                   /\ UNCHANGED <<loadVars, dragVars>>
                   /\ UNCHANGED <<container, resizeListener, disposed, frames,
                                  lastHandle, animationId, lateFrame, unhandled>>
                   /\ container => (/\ rendererSize' = size
                                    /\ aspect' = Div(Num(size[1]), Num(size[2])))
                   /\ ~container => UNCHANGED vars ]_vars

\* C14 witness: the viewport has been resized to a square while the camera is
\* in the orthographic look at the top view about a panned target.
ResizedInTopView ==
    /\ rendererSize = <<400, 400>>
    /\ aspect = Num(1)
    /\ currentView = "top"
    /\ ~isPerspective
    /\ target # Origin

\* the square of the distance between two points
DistanceSquared(p, q) ==
    (p[1] - q[1]) * (p[1] - q[1]) + (p[2] - q[2]) * (p[2] - q[2])
        + (p[3] - q[3]) * (p[3] - q[3])

\* C15: after two projection toggles in a row the projection mode, the field
\* of view, the orbit target and the camera's distance from the target are
\* those of before the first toggle.
ProjectionToggleReversible ==
    (streak.cmd = "toggleCameraMode" /\ streak.n = 2)
        => /\ isPerspective = streak.start.isPerspective
           /\ camera.fov = streak.start.fov
           /\ target = streak.start.target
           /\ camera.look = target
           /\ DistanceSquared(camera.position, target)
                  = DistanceSquared(streak.start.position, streak.start.target)

\* C16: a load of a supported format that was issued with no other load in
\* flight, is still the only and newest one when its fetch and parse succeed,
\* ends with exactly one model node in the scene, the manipulator bound to
\* it, progress 100, no error message and the loading flag cleared.
SuccessfulLoadOutcome ==
    [][ \A r \in inflight : \A node \in ResultsOf(r) :
            (LoadResolved(r, node) /\ r.alone /\ inflight = {r} /\ r.id = nextId)
                => /\ Cardinality(sceneModels') = 1
                   /\ tcObject' \in sceneModels'
                   /\ currentModel'.id = tcObject'
                   /\ loadingProgress' = 100
                   /\ loadError'.text = <<>>
                   /\ ~isLoading' ]_vars

\* C17: no promise returned by loadModel ever rejects and the render loop has
\* a frame pending as long as the viewer is mounted; the step that handles a
\* failed fetch or parse leaves a non-empty error message, progress 100 and
\* the loading flag cleared, and does not touch the pending frame.
LoadFailureContained ==
    /\ [](~unhandled /\ (~disposed => frames # {}))
    /\ [][ \A r \in inflight : \A message \in ErrorMessages :
               LoadRejected(r, message)
                   => /\ Len(loadError'.text) = 1
                      /\ loadError'.text[1] # ""
                      /\ loadError'.of = r.id
                      /\ loadingProgress' = 100
                      /\ ~isLoading'
                      /\ UNCHANGED <<frames, animationId, unhandled>> ]_vars

\* C17 witness: a rejection without a message of its own is on display under
\* the fallback text while the viewer is mounted and a frame is pending.
FailureShownLoopRunning ==
    /\ loadError.text = <<"Failed to load 3D model">>
    /\ loadError.of # 0
    /\ ~isLoading
    /\ loadingProgress = 100
    /\ ~disposed
    /\ frames # {}
    /\ animationId > 1

\* C18: a finished checkDuplicate of a signed-in user whose query succeeded
\* reports isDuplicate whenever, at the time of the query, a row of that user
\* in that folder had the SHA-256 hash of the selected file, whatever the
\* file names.
IdenticalFileDetected ==
    (check.pc = "done" /\ check.userId # 0 /\ check.queried /\ check.identical)
        => check.isDuplicate

\* C19: after an uploadModel call has ended in an error, the object at the
\* path that call had chosen is not in storage.
NoOrphanAfterFailedUpload ==
    (outcome.error # "" /\ outcome.path # <<>>) => outcome.path \notin storage

\* C20: an uploadModel call made with no user id available ends at once with
\* the authentication error: it does not go on to hash the file, and storage
\* and table are as before.
AuthCheckedFirst ==
    [][ \A file \in Files : \A folderPath \in Folders :
            (UploadModel(file, folderPath) /\ user = 0)
                => /\ outcome'.error = AuthError
                   /\ outcome'.id = uploadCalls'
                   /\ uploads' = uploads
                   /\ storage' = storage
                   /\ db' = db ]_vars

\* C20 witness: the call that ended last was refused for want of a user,
\* after an earlier upload of a signed-in user had been stored.
UploadRefusedSignedOut ==
    /\ outcome.error = AuthError
    /\ outcome.id = uploadCalls
    /\ user = 0
    /\ db # {}
    /\ storage # {}

\* the view tags set by the view-preset commands
CanonicalViews == {"top", "bottom", "front", "back", "left", "right"}

\* C21: resetView leaves the view tag at no canonical view, so the view
\* toggle that follows it yields the first view of its pair.
HomeEntersHome ==
    [][ /\ ResetView => currentView' \notin CanonicalViews
        /\ (streak.cmd = "resetView" /\ ToggleTopBottom) => currentView' = "top"
        /\ (streak.cmd = "resetView" /\ ToggleFrontBack) => currentView' = "front"
        /\ (streak.cmd = "resetView" /\ ToggleLeftRight) => currentView' = "left"
      ]_vars

\* C22: after an orbit, zoom or pan gesture the view tag is no canonical
\* view.
GestureEntersFree ==
    [][ (Orbit \/ Pan) => currentView' \notin CanonicalViews ]_vars

\* C23: when a load attaches its model, the manipulator is visible afterwards
\* exactly if move or rotate is active at that moment, and then in the mode
\* of the active flag.
AttachFollowsMode ==
    [][ \A r \in inflight : \A node \in ResultsOf(r) :
            (LoadResolved(r, node) /\ node.id # 0)
                => /\ tcObject' = node.id
                   /\ tcVisible' = (showMoveGizmo \/ showRotateGizmo)
                   /\ showMoveGizmo => tcMode' = "translate"
                   /\ showRotateGizmo => tcMode' = "rotate" ]_vars

\* C24: after every step a bound manipulator's node is the current model and
\* a child of the scene, and a step that attaches a new node while the
\* manipulator is bound to another leaves that other node out of the scene.
ManipulatorBoundToCurrentModel ==
    [][ /\ tcObject' # 0 => (tcObject' = currentModel'.id /\ tcObject' \in sceneModels')
        /\ \A r \in inflight : \A node \in ResultsOf(r) :
               (LoadResolved(r, node) /\ node.id # 0 /\ tcObject # 0)
                   => tcObject \notin sceneModels' ]_vars

\* C25: whatever the state before, a load request that starts a fetch leaves
\* the orchestrator loading with progress 0 and no error message; a request
\* for an unsupported format, which ends in the same step, leaves no message
\* but its own.
NewLoadResetsState ==
    [][ \A url \in Urls :
            LoadModel(url)
                => IF Extension(url) \in SupportedFormats
                   THEN /\ isLoading'
                        /\ loadingProgress' = 0
                        /\ loadError' = NoError
                        /\ nextId' \in {r.id : r \in inflight'}
                   ELSE loadError'.of = nextId' ]_vars

\* C25 witness: a request was issued while another was loading, and the
\* orchestrator is loading with progress 0 and no message.
NewLoadWhileLoading ==
    /\ Cardinality(inflight) = 2
    /\ nextId \in {r.id : r \in inflight}
    /\ isLoading
    /\ loadingProgress = 0
    /\ loadError = NoError

\* C26: the progress on display is always within 0..100; it is 0 when a
\* request that starts a fetch has been issued and 100 when the newest
\* request has ended; and while the newest request is in flight no step
\* lowers it.
ProgressMonotone ==
    [][ /\ loadingProgress' \in 0..100
        /\ (nextId' # nextId /\ nextId' \in {r.id : r \in inflight'})
               => loadingProgress' = 0
        /\ (nextId \in InflightIds /\ nextId \notin {r.id : r \in inflight'})
               => loadingProgress' = 100
        /\ (nextId' = nextId /\ nextId \in InflightIds)
               => loadingProgress' >= loadingProgress ]_vars

\* the format tag of each URL: its file extension in lower case when that is
\* one of the four supported tags
FormatTag(url) ==
    CASE url = <<"part", "stl">> -> "stl"
      [] url = <<"https://xyz", "supabase", "co/storage/models/PART", "STL">> -> "stl"
      [] url = <<"assembly", "3mf">> -> "3mf"
      [] url = <<"scene", "glb">> -> "glb"
      [] url = <<"scene", "Gltf">> -> "gltf"
      [] OTHER -> "other"

\* the loader each format tag selects
LoaderOfTag(tag) ==
    CASE tag = "stl" -> "STLLoader"
      [] tag = "3mf" -> "ThreeMFLoader"
      [] tag = "glb" -> "GLTFLoader"
      [] tag = "gltf" -> "GLTFLoader"

ProjectionOrthogonal ==
    [][ /\ ToggleCameraMode
               => /\ isPerspective' = ~isPerspective
                  /\ UNCHANGED <<currentView, target, modeVars, tcVars>>
                  /\ UNCHANGED <<sceneModels, currentModel>>
        /\ (ResetView \/ ToggleTopBottom \/ ToggleFrontBack \/ ToggleLeftRight)
               => /\ isPerspective' = isPerspective
                  /\ camera'.fov = camera.fov ]_vars

\* C28 witness: the projection was toggled to the orthographic look as the
\* last command, in the left view about a panned target.
ProjectionToggledInLeftView ==
    /\ streak.cmd = "toggleCameraMode"
    /\ streak.n = 1
    /\ ~isPerspective
    /\ currentView = "left"
    /\ target # Origin

\* C29: grid and axes are children of the scene in every state and each
\* flag equals the visibility of its object; no step of a load touches
\* them, and each helper toggle leaves the other helper's flag and object
\* as they are.
HelpersIndependent ==
    /\ [](/\ sceneHelpers = {"ground", "ucs"}
          /\ showUCS = ucsVisible
          /\ showGround = groundVisible)
    /\ [][ /\ (Load \/ Resolve \/ Reject) => UNCHANGED helperVars
           /\ ToggleUCS => (showUCS' = ~showUCS /\ UNCHANGED <<showGround, groundVisible>>)
           /\ ToggleGround => (showGround' = ~showGround /\ UNCHANGED <<showUCS, ucsVisible>>)
         ]_vars

\* C29 witness: the grid is hidden and the axes are shown while one model is
\* in the scene and a further load is in flight.
GridHiddenDuringLoad ==
    /\ ~showGround
    /\ ~groundVisible
    /\ showUCS
    /\ ucsVisible
    /\ sceneModels # {}
    /\ inflight # {}

\* the rows of the table with the user, folder and content hash of call c
SameContent(c) ==
    {m \in db : /\ m.user_id = c.userId
                /\ m.folder_path = c.folder
                /\ m.file_hash = CalculateFileHash(c.file)}

\* C30: once the upload that Keep Both started has ended, and neither the
\* session nor the storage service has failed it, it has returned without
\* an error and the table holds two records with its user, folder and
\* content hash.
KeepBothAddsRecord ==
    (last.keep /\ last.error \notin {AuthError, "uploadError"})
        => (last.error = "" /\ Cardinality(SameContent(last)) >= 2)

\* the folder performUpload would write to as the page stands
TargetFolder ==
    IF showNewFolder /\ newFolderName # "" THEN newFolderName ELSE selectedFolder

\* C31: while the duplicate dialog is shown, the table holds a record of the
\* user with the selected file's content hash in the folder the upload will
\* write to.
DialogOnlyForTargetFolder ==
    showDuplicateDialog
        => \E m \in db : /\ m.user_id = user
                         /\ m.folder_path = TargetFolder
                         /\ m.file_hash = CalculateFileHash(selectedFile)

\* C32: while the request issued last is in flight, isLoading is true.
LoadingWhileLatestPending ==
    nextId \in InflightIds => isLoading

\* C33: every request in flight comes to a state in which it has ended, the
\* loading flag is false and the progress is 100, and the loading flag never
\* stays true for ever.
EveryLoadTerminates ==
    /\ \A id \in 1..MaxLoads :
           (id \in InflightIds)
               ~> (id \notin InflightIds /\ ~isLoading /\ loadingProgress = 100)
    /\ isLoading ~> ~isLoading

\* C33 witness: two requests have overlapped and both have ended, one of them
\* in an error.
BothLoadsEnded ==
    /\ nextId = 2
    /\ superseded # {}
    /\ inflight = {}
    /\ loadError # NoError
    /\ ~isLoading
    /\ loadingProgress = 100

\* C34: after resetView the camera has the pose resetView gives from the
\* initial state, whatever the view before: position (5,5,5), orbit target
\* at the origin, up vector (0,1,0).
ResetViewRestoresPose ==
    streak.cmd = "resetView"
        => /\ camera.position = HomePosition
           /\ target = Origin
           /\ camera.up = DefaultUp

\* C35: once a deleteModel call has ended, the storage object of its record
\* is in the bucket exactly if the record is in the table.
DeleteKeepsConsistent ==
    deletion.pc = "done"
        => ((deletion.path \in storage) <=> (\E m \in db : m.id = deletion.id))

\* C36: once the viewer is torn down, no step adds a model to the scene or
\* binds the manipulator to a node.
NoAttachAfterTeardown ==
    [][disposed => /\ sceneModels' \subseteq sceneModels
                   /\ tcObject' \in {tcObject, 0}]_vars

\* C37: every upload the page has under way is of the file whose duplicate
\* check led to it, and of a selection that had not been given to
\* uploadModel before.
UploadsTheCheckedFile ==
    \A a \in awaited : a.file = a.checked /\ ~a.again

====
